---- MODULE Spec2Model ----
(***************************************************************************)
(* Match orchestration (Server.start, Server.cleanup), the FACEIT start    *)
(* handler and the score reconciliation loop of saveFaceitResult.          *)
(***************************************************************************)
EXTENDS Integers, Sequences, FiniteSets, TLC

(***************************************************************************)
(* Bounds of the model.                                                    *)
(***************************************************************************)
\* regulation and overtime limits are 2*k rounds, k in 1..MaxHalfRounds
MaxHalfRounds == 3
\* length of the ROUND_OVER list handed to the reconciliation loop
MaxRoundEvents == 6
\* events the watcher appends to scorebotEvents during one session
MaxBuffer == 2
\* GAME_OVER lines the watcher reports during one session
MaxGameOvers == 2
\* SAY and PLAYER_ENTERED lines the watcher reports during one session
MaxHooks == 2
\* buffered events with player references handed to the attribution
MaxAttributed == 2
\* maps in the map pool of the veto
MaxMaps == 4

(***************************************************************************)
(* Program constants.                                                      *)
(***************************************************************************)
\* Constants.Settings.matchRules.maxRounds / maxRoundsOvertime
DefaultMaxRounds == 6
DefaultMaxRoundsOvertime == 6

Games == {"cs16", "cs2", "csgo", "cssource", "czero"}

\* a ROUND_OVER payload whose winner is missing or not a number
Malformed == -1
\* Number(undefined): the team id found when no side entry matches
NaNTeam == 0

VARIABLES
    game, maxRounds, maxRoundsOT,          \* settings
    pc, abortCause,                        \* Server.start: position, error thrown
    rcon, scorebot,                        \* console client, log watcher
    scorebotEvents, result,                \* Server fields
    sleeping,                              \* GAME_OVER callbacks inside Util.sleep
    reported, resultWrites, settled, gameOvers,
    gameClientProcess, clientAlive, closeListeners,
    cleanupCalls, cleanupAwait, restores,
    files,                                 \* the game files prepare() modifies
    hpc,                                   \* faceit:startMatch handler position
    sides, roundEvents, idx,               \* saveFaceitResult
    scoreA, scoreB, half, rounds, w, effectiveWinner,
    emitted,                               \* events the watcher has emitted, by kind
    entering,                              \* PLAYER_ENTERED callbacks inside Util.sleep
    sent, uncaught,                        \* console commands delivered, rejections nobody handles
    server,                                \* the dedicated server started by launchServerCSGO
    clientFault,                           \* a spawn of the client that failed, and its 'error' event
    guard,                                 \* the last call of isRunningAndThrow
    room,                                  \* the match room stored in the payload
    db,                                    \* what saveFaceitResult has written
    players,                               \* saveFaceitResult: the roster [...teamA, ...teamB]
    peer,                                  \* the client of a second Server in the same process
    veto,                                  \* state.faceitVeto: history, completed, deciderMap
    mapPool,                               \* MatchRoom: names of the maps of the loaded pool
    userIsCaptainA,                        \* MatchRoom: the user is first in the shuffled team A
    selectedMap                            \* the map handleStartMatch sent to faceit:startMatch

cfgVars == <<game, maxRounds, maxRoundsOT>>
srvVars == <<pc, abortCause, rcon, scorebot, scorebotEvents, result, sleeping,
             reported, resultWrites, settled, gameOvers>>
procVars == <<gameClientProcess, clientAlive, closeListeners,
              cleanupCalls, cleanupAwait, restores, files>>
tallyVars == <<roundEvents, idx, scoreA, scoreB, half, rounds, w, effectiveWinner>>
hookVars == <<emitted, entering, sent, uncaught>>
faultVars == <<server, clientFault>>
outerVars == <<guard>>
dbVars == <<room, db>>
extVars == <<hookVars, faultVars, outerVars, dbVars>>
attrVars == <<players>>
peerVars == <<peer>>
vetoVars == <<veto, mapPool, userIsCaptainA, selectedMap>>
restVars == <<attrVars, peerVars, vetoVars>>
vars == <<cfgVars, srvVars, procVars, hpc, sides, tallyVars, extVars, restVars>>

(***************************************************************************)
(* The map veto of the match room (MatchRoom in matchroom.tsx).            *)
(***************************************************************************)
\* deciderMap: null
NoMap == 0

\* state.faceitVeto || { history: [], completed: false, deciderMap: null }
NoVeto == [history |-> <<>>, completed |-> FALSE, deciderMap |-> NoMap]

\* the pool is not loaded, nothing was banned, no match was started
VetoIdle ==
    /\ veto = NoVeto /\ mapPool = {}
    /\ userIsCaptainA = TRUE /\ selectedMap = NoMap

\* the pools api.mapPool.find can return: maps 1..n
MapPools == {1..n : n \in 1..MaxMaps}

\* mapPool.filter(m => !vetoHistory.some(v => v.map === m.gameMap.name))
remainingMaps(v, pool) ==
    {m \in pool : \A i \in 1..Len(v.history) : v.history[i].map # m}

\* vetoHistory.filter(v => v.kind === "BAN").length
bansCount(v) == Len(SelectSeq(v.history, LAMBDA a : a.kind = "BAN"))

\* a turn that never passes to team B
currentTurnTeamA(v, pool) ==
    IF v.completed THEN "none"
    ELSE IF Cardinality(remainingMaps(v, pool)) <= 1 THEN "none"
    ELSE "TEAM_A"

\* whose turn it is to ban; "none" is null
currentTurn(v, pool) ==
    IF v.completed THEN "none"
    ELSE IF Cardinality(remainingMaps(v, pool)) <= 1 THEN "none"
    ELSE IF bansCount(v) % 2 = 0 THEN "TEAM_A" ELSE "TEAM_B"

\* the payload of faceitVetoSet(history, !!deciderOverride, deciderOverride)
updateVeto(history, deciderOverride) ==
    [history |-> history, completed |-> deciderOverride # NoMap,
     deciderMap |-> deciderOverride]

\* the reducer of FACEIT_VETO_SET: state.faceitVeto becomes the payload
faceitVetoReducer(payload) ==
    [history |-> payload.history, completed |-> payload.completed,
     deciderMap |-> payload.deciderMap]

\* api.mapPool.find resolved: setMapPool(result)
LoadMapPool ==
    /\ mapPool = {}
    /\ mapPool' \in MapPools
    /\ UNCHANGED <<cfgVars, attrVars, peerVars, veto, userIsCaptainA, selectedMap,
                   extVars, srvVars, procVars, hpc, sides, tallyVars>>

\* a ban is written with the decider of the closure, null while banning
Ban(team, mapName) ==
    /\ veto' = faceitVetoReducer(
                   updateVeto(Append(veto.history,
                                     [map |-> mapName, by |-> team,
                                      kind |-> "BAN"]),
                              veto.deciderMap))
    /\ UNCHANGED <<cfgVars, attrVars, peerVars, mapPool, userIsCaptainA, selectedMap,
                   extVars, srvVars, procVars, hpc, sides, tallyVars>>

\* handleUserBan(mapName): the user clicks a map
handleUserBan ==
    \E mapName \in 1..MaxMaps :
        /\ ~veto.completed
        /\ currentTurn(veto, mapPool) = "TEAM_A"
        /\ userIsCaptainA
        /\ mapName \in remainingMaps(veto, mapPool)
        /\ Ban("TEAM_A", mapName)

\* the timeout of the CPU ban effect for team B fires
CpuBanTeamB ==
    /\ ~veto.completed
    /\ mapPool # {}
    /\ Cardinality(remainingMaps(veto, mapPool)) > 1
    /\ currentTurn(veto, mapPool) = "TEAM_B"
    /\ \E mapName \in remainingMaps(veto, mapPool) : Ban("TEAM_B", mapName)

\* the timeout of the CPU ban effect for team A fires
CpuBanTeamA ==
    /\ ~veto.completed
    /\ mapPool # {}
    /\ Cardinality(remainingMaps(veto, mapPool)) > 1
    /\ currentTurn(veto, mapPool) = "TEAM_A"
    /\ ~userIsCaptainA
    /\ \E mapName \in remainingMaps(veto, mapPool) : Ban("TEAM_A", mapName)

\* the auto-decider effect: one map is left
AutoDecider ==
    /\ mapPool # {}
    /\ ~veto.completed
    /\ Cardinality(remainingMaps(veto, mapPool)) = 1
    /\ \A i \in 1..Len(veto.history) : veto.history[i].kind # "DECIDER"
    /\ \E mapName \in remainingMaps(veto, mapPool) :
          veto' = faceitVetoReducer(
                      updateVeto(Append(veto.history,
                                        [map |-> mapName, by |-> "SYSTEM",
                                         kind |-> "DECIDER"]),
                                 mapName))
    /\ UNCHANGED <<cfgVars, attrVars, peerVars, mapPool, userIsCaptainA, selectedMap,
                   extVars, srvVars, procVars, hpc, sides, tallyVars>>

\* handleStartMatch: the request carries selectedMap: deciderMap
handleStartMatch ==
    /\ veto.deciderMap # NoMap
    /\ selectedMap' = veto.deciderMap
    /\ UNCHANGED <<cfgVars, attrVars, peerVars, veto, mapPool, userIsCaptainA,
                   extVars, srvVars, procVars, hpc, sides, tallyVars>>

(***************************************************************************)
(* saveFaceitResult: side lookup and the per-round winner computation.     *)
(***************************************************************************)
\* payload.sides as written by the handler, or {} when the payload has none
SidesTCT == [k \in {1, 2} |-> IF k = 1 THEN "t" ELSE "ct"]
SidesCTT == [k \in {1, 2} |-> IF k = 1 THEN "ct" ELSE "t"]
NoSides == [k \in {} |-> "t"]
SideMaps == {SidesTCT, SidesCTT, NoSides}

Least(S) == CHOOSE x \in S : \A y \in S : x <= y

\* Number(Object.keys(sides).find(k => sides[k] === side))
TeamOnSide(s, side) ==
    LET ks == {k \in DOMAIN s : s[k] = side}
    IN  IF ks = {} THEN NaNTeam ELSE Least(ks)

tTeamId(s) == TeamOnSide(s, "t")
ctTeamId(s) == TeamOnSide(s, "ct")

\* a loop without the typeof test
IsNumberAny(x) == TRUE

IsNumber(x) == x # Malformed

\* flipWinner that returns its argument
flipWinnerKeeps(winner) == winner

flipWinner(winner) == IF winner = 0 THEN 1 ELSE 0

\* ((roundsOT - 1) % maxRoundsOT) + 1
otRound(r, R, O) == (((r - R) - 1) % O) + 1

\* Math.ceil(roundsOT / maxRoundsOT)
otIndex(r, R, O) == ((r - R) + O - 1) \div O

\* isSideFlip of the overtime branch; x === O / 2 is 2 * x = O
isSideFlipOT(r, R, O) == 2 * otRound(r, R, O) = O \/ otRound(r, R, O) = O

\* isSideFlip of the regulation branch without the midpoint test
isSideFlipRegEndOnly(r, R) == r = R

\* isSideFlip of the regulation branch
isSideFlipReg(r, R) == 2 * r = R \/ r = R

doInvert(r, R, O) == otIndex(r, R, O) % 2 = 1

\* the effective winner of round r: lines 45-59
EffectiveWinner(winner, h, r, R, O) ==
    IF r > R
    THEN IF doInvert(r, R, O) THEN flipWinner(winner) ELSE winner
    ELSE IF h % 2 = 1 THEN flipWinner(winner) ELSE winner

\* the half counter after round r: lines 54 and 58
HalfAfter(h, r, R, O) ==
    IF r > R
    THEN IF isSideFlipOT(r, R, O) THEN h + 1 ELSE h
    ELSE IF isSideFlipReg(r, R) THEN h + 1 ELSE h

\* a winner team that ignores the sides map: 0 is team 1, 1 is team 2
WinnerTeamIdBySlot(eff, s) == IF eff = 0 THEN 1 ELSE 2

\* winnerTeamId: lines 61-62
WinnerTeamId(eff, s) == IF eff = 0 THEN tTeamId(s) ELSE ctTeamId(s)

\* the accumulator of the loop before its first iteration: lines 33-37
TallyStart == [scoreA |-> 0, scoreB |-> 0, half |-> 0, rounds |-> 1,
               w |-> Malformed, effectiveWinner |-> 0]

\* one iteration of the loop over roundEvents: lines 41-68
RoundStep(acc, ev, R, O, s) ==
    IF ~IsNumber(ev.winner)
    THEN [acc EXCEPT !.w = ev.winner]
    ELSE LET eff == EffectiveWinner(ev.winner, acc.half, acc.rounds, R, O)
             team == WinnerTeamId(eff, s)
         IN  [scoreA |-> IF team = 1 THEN acc.scoreA + 1 ELSE acc.scoreA,
              scoreB |-> IF team = 2 THEN acc.scoreB + 1 ELSE acc.scoreB,
              half |-> HalfAfter(acc.half, acc.rounds, R, O),
              rounds |-> acc.rounds + 1,
              w |-> ev.winner,
              effectiveWinner |-> eff]

\* the whole loop
RECURSIVE Tally(_, _, _, _, _)
Tally(acc, evs, R, O, s) ==
    IF evs = <<>> THEN acc
    ELSE Tally(RoundStep(acc, Head(evs), R, O, s), Tail(evs), R, O, s)

(***************************************************************************)
(* Events of the watcher.                                                  *)
(***************************************************************************)
RoundOver(x) == [type |-> "roundover", winner |-> x]
RoundOverEvents == {RoundOver(x) : x \in {0, 1, Malformed}}
OtherBuffered == {[type |-> "playerkilled", winner |-> Malformed],
                  [type |-> "playerassisted", winner |-> Malformed]}
BufferedEvents == RoundOverEvents \cup OtherBuffered

\* what the watcher parses from a log line: the winner index is 0 or 1
WatchedEvents == {RoundOver(0), RoundOver(1)} \cup OtherBuffered

\* Scorebot.EventIdentifier: the kinds of event Server.start subscribes to
EventKinds == {"playerassisted", "playerkilled", "roundover", "say",
               "playerentered", "gameover"}

\* the watcher emitted one more event of that kind
Emit(kind) == [emitted EXCEPT ![kind] = @ + 1]

\* (gameServer.scorebotEvents || []).filter(e => e.type === "roundover")
RoundOvers(evs) == SelectSeq(evs, LAMBDA e : e.type = "roundover")

RoundLimits == {2 * k : k \in 1..MaxHalfRounds}

SeqsUpTo(S, n) == UNION {[1..m -> S] : m \in 0..n}

\* gain and loss of calcEloAdjustment: even teams, user's team favoured,
\* user's team the underdog
EloAdjustments == {<<25, 25>>, <<20, 30>>, <<30, 20>>}

\* the fields of the room saveFaceitResult reads: whether teamA lists the
\* user, eloGain and eloLoss
Rooms == [userTeamA : BOOLEAN, elo : EloAdjustments]

\* the room createMatchRoom builds for two teams of equal rating
EvenRoom == [userTeamA |-> TRUE, elo |-> <<25, 25>>]

\* the match and the ratings as the handler created them
NoWrites == [status |-> "ready", score |-> <<0, 0>>,
             resultA |-> "none", resultB |-> "none",
             faceitIsWin |-> "unset", faceitEloDelta |-> 0,
             profileDelta |-> 0, teamADelta |-> 0, teamBDelta |-> 0,
             events |-> <<>>]

\* no call of isRunningAndThrow yet
NoGuard == [name |-> "none", tasklist |-> "none", origin |-> "none",
            outcome |-> "none"]

(***************************************************************************)
(* The earlier saveFaceitResult (part_002): no sides map, effective winner *)
(* 0 is team A and 1 is team B.                                            *)
(***************************************************************************)
\* an invert flag that is never set
invertEarlierNever(h, r, R, O) == FALSE

\* computeWinner: invert = half % 2 === 1, replaced in the odd overtime
\* blocks by half % 2 === 0; its half++ changes the parameter only
invertEarlier(h, r, R, O) ==
    IF r > R /\ otIndex(r, R, O) % 2 = 1 THEN h % 2 = 0 ELSE h % 2 = 1

\* return invert ? 1 - eventWinner : eventWinner
computeWinner(eventWinner, h, r, R, O) ==
    IF invertEarlier(h, r, R, O) THEN 1 - eventWinner ELSE eventWinner

\* half after the round: the if/else that follows the score update
halfEarlier(h, r, R, O) ==
    IF r > R
    THEN IF 2 * otRound(r, R, O) = O \/ otRound(r, R, O) = O THEN h + 1 ELSE h
    ELSE IF 2 * r = R \/ r = R THEN h + 1 ELSE h

\* one iteration of the earlier loop
RoundStepEarlier(acc, ev, R, O) ==
    IF ev.winner = Malformed
    THEN acc
    ELSE LET mapped == computeWinner(ev.winner, acc.half, acc.rounds, R, O)
         IN  [scoreA |-> IF mapped = 0 THEN acc.scoreA + 1 ELSE acc.scoreA,
              scoreB |-> IF mapped = 1 THEN acc.scoreB + 1 ELSE acc.scoreB,
              half |-> halfEarlier(acc.half, acc.rounds, R, O),
              rounds |-> acc.rounds + 1]

\* the whole earlier loop, from scoreA = scoreB = half = 0, rounds = 1
RECURSIVE TallyEarlier(_, _, _, _)
TallyEarlier(acc, evs, R, O) ==
    IF evs = <<>> THEN acc
    ELSE TallyEarlier(RoundStepEarlier(acc, Head(evs), R, O), Tail(evs), R, O)

TallyStartEarlier == [scoreA |-> 0, scoreB |-> 0, half |-> 0, rounds |-> 1]

(***************************************************************************)
(* The reconciliation loop on its own: inputs drawn at the start, one      *)
(* action per iteration.                                                   *)
(***************************************************************************)
InitTally ==
    /\ game = "csgo"
    /\ maxRounds \in RoundLimits
    /\ maxRoundsOT \in RoundLimits
    /\ pc = "resolved" /\ abortCause = "none"
    /\ rcon = "connected" /\ scorebot = "started"
    /\ roundEvents \in SeqsUpTo(RoundOverEvents, MaxRoundEvents)
    /\ scorebotEvents = roundEvents
    /\ result = <<4, 2>> /\ sleeping = <<>> /\ reported = <<4, 2>>
    /\ resultWrites = 1 /\ settled = 1 /\ gameOvers = 1
    /\ gameClientProcess = "proc" /\ clientAlive = TRUE /\ closeListeners = 2
    /\ cleanupCalls = 0 /\ cleanupAwait = 0 /\ restores = 0
    /\ files = "prepared"
    /\ hpc = "tally"
    /\ sides \in SideMaps
    /\ idx = 0
    /\ scoreA = TallyStart.scoreA /\ scoreB = TallyStart.scoreB
    /\ half = TallyStart.half /\ rounds = TallyStart.rounds
    /\ w = TallyStart.w /\ effectiveWinner = TallyStart.effectiveWinner
    /\ emitted = [k \in EventKinds |->
                      IF k = "roundover" THEN Len(roundEvents)
                      ELSE IF k = "gameover" THEN 1 ELSE 0]
    /\ entering = 0 /\ sent = 0 /\ uncaught = 0
    /\ server = "up" /\ clientFault = "none"
    /\ guard = NoGuard
    /\ room = EvenRoom /\ db = NoWrites
    /\ players = <<>>
    /\ peer = "none"
    /\ VetoIdle

Acc == [scoreA |-> scoreA, scoreB |-> scoreB, half |-> half, rounds |-> rounds,
        w |-> w, effectiveWinner |-> effectiveWinner]

SetAcc(a) ==
    /\ scoreA' = a.scoreA /\ scoreB' = a.scoreB
    /\ half' = a.half /\ rounds' = a.rounds
    /\ w' = a.w /\ effectiveWinner' = a.effectiveWinner

TallyRound ==
    /\ hpc = "tally"
    /\ idx < Len(roundEvents)
    /\ SetAcc(RoundStep(Acc, roundEvents[idx + 1], maxRounds, maxRoundsOT, sides))
    /\ idx' = idx + 1
    /\ UNCHANGED <<cfgVars, restVars, extVars, srvVars, procVars, hpc, sides, roundEvents>>

TallyDone ==
    /\ hpc = "tally"
    /\ idx = Len(roundEvents)
    /\ hpc' = "persist"
    /\ UNCHANGED <<cfgVars, restVars, extVars, srvVars, procVars, sides, tallyVars>>

NextTally == TallyRound \/ TallyDone

SpecTally == InitTally /\ [][NextTally]_vars

(***************************************************************************)
(* Server.start, Server.cleanup and the client process.                    *)
(***************************************************************************)
\* final score arrays a GAME_OVER line can report
GameOverScores == {<<4, 2>>, <<16, 3>>, <<16, 4>>}

Total(score) == score[1] + score[2]

Reversed(score) == <<score[2], score[1]>>

\* a GAME_OVER callback that never sleeps nor reorders
DelayedNever(g) == FALSE

\* the GAME_OVER callback sleeps and reorders only for these games
Delayed(g) == g \in {"cs2", "csgo"}

\* the overtime count rounded down instead of up
overtimeCountFloor(total, R, O) == (total - R) \div O

\* Math.ceil(totalRoundsOvertime / maxRoundsOvertime)
overtimeCount(total, R, O) == ((total - R) + O - 1) \div O

\* payload.score after the reordering of the GAME_OVER callback
Reordered(score, R, O) ==
    IF Total(score) > R /\ overtimeCount(Total(score), R, O) % 2 = 1
    THEN Reversed(score)
    ELSE score

\* Scorebot.Watcher.quit(): the watcher stops tailing, whatever its state
ScorebotQuit(sb) == "quit"

\* the state after construction of the Server and registration of the handler
Init ==
    /\ game \in Games
    /\ maxRounds = DefaultMaxRounds
    /\ maxRoundsOT = DefaultMaxRoundsOvertime
    /\ pc = "prepare" /\ abortCause = "none"
    /\ rcon = "none" /\ scorebot = "none"
    /\ scorebotEvents = <<>>
    /\ result = <<>> /\ sleeping = <<>> /\ reported = <<>>
    /\ resultWrites = 0 /\ settled = 0 /\ gameOvers = 0
    /\ gameClientProcess = "null" /\ clientAlive = FALSE /\ closeListeners = 0
    /\ cleanupCalls = 0 /\ cleanupAwait = 0 /\ restores = 0
    /\ files = "original"
    /\ hpc = "start"
    /\ sides = NoSides
    /\ roundEvents = <<>>
    /\ idx = 0
    /\ scoreA = TallyStart.scoreA /\ scoreB = TallyStart.scoreB
    /\ half = TallyStart.half /\ rounds = TallyStart.rounds
    /\ w = TallyStart.w /\ effectiveWinner = TallyStart.effectiveWinner
    /\ emitted = [k \in EventKinds |-> 0]
    /\ entering = 0 /\ sent = 0 /\ uncaught = 0
    /\ server = "none" /\ clientFault = "none"
    /\ guard = NoGuard
    /\ room = EvenRoom /\ db = NoWrites
    /\ players = <<>>
    /\ peer = "none"
    /\ VetoIdle

\* step 1: await this.prepare()
PrepareDone ==
    /\ pc = "prepare"
    /\ pc' = "launch"
    /\ files' = "prepared"
    /\ UNCHANGED <<cfgVars, restVars, extVars, abortCause, rcon, scorebot, scorebotEvents, result,
                   sleeping, reported, resultWrites, settled, gameOvers,
                   gameClientProcess, clientAlive, closeListeners,
                   cleanupCalls, cleanupAwait, restores, hpc, sides, tallyVars>>

\* prepare() throws, before or after it changed files
PrepareThrows ==
    /\ pc = "prepare"
    /\ pc' = "rejected"
    /\ abortCause' = "prepare"
    /\ files' \in {"original", "prepared"}
    /\ UNCHANGED <<cfgVars, restVars, extVars, rcon, scorebot, scorebotEvents, result,
                   sleeping, reported, resultWrites, settled, gameOvers,
                   gameClientProcess, clientAlive, closeListeners,
                   cleanupCalls, cleanupAwait, restores, hpc, sides, tallyVars>>

\* launchClientCS16 / CS2 / CSS / CZERO / CSGO: spawn and first 'close' listener
SpawnClient ==
    /\ gameClientProcess' = "proc"
    /\ clientAlive' = TRUE
    /\ closeListeners' = 1

\* step 2: the client for every game but CSGO, the dedicated server for CSGO
Launch ==
    /\ pc = "launch"
    /\ pc' = "rcon"
    /\ IF game = "csgo"
       THEN /\ server' = "up"
            /\ UNCHANGED <<gameClientProcess, clientAlive, closeListeners>>
       ELSE /\ SpawnClient
            /\ UNCHANGED server
    /\ UNCHANGED <<cfgVars, restVars, outerVars, dbVars, hookVars, clientFault, abortCause, rcon, scorebot, scorebotEvents, result,
                   sleeping, reported, resultWrites, settled, gameOvers,
                   cleanupCalls, cleanupAwait, restores, files, hpc, sides,
                   tallyVars>>

\* the console answers only when the process that hosts it runs: the
\* dedicated server for CSGO, the client for the other games
RconInitOutcomes ==
    IF (game = "csgo" /\ server = "up") \/ (game # "csgo" /\ clientFault = "none")
    THEN {"connected", "failed"}
    ELSE {"failed"}

\* a Server.start that lets the rejection of rcon.init() escape
AfterRconInitThrows(outcome) ==
    IF outcome = "failed"
    THEN [pc |-> "rejected", abortCause |-> "rcon"]
    ELSE [pc |-> "attach", abortCause |-> "none"]

\* where Server.start goes after rcon.init() settled with the given outcome
AfterRconInit(outcome) == [pc |-> "attach", abortCause |-> "none"]

\* step 3: try { await this.rcon.init() } catch { warn }
RconInit ==
    /\ pc = "rcon"
    /\ clientFault # "pending"
    /\ \E outcome \in RconInitOutcomes :
          /\ rcon' = outcome
          /\ pc' = AfterRconInit(outcome).pc
          /\ abortCause' = AfterRconInit(outcome).abortCause
    /\ UNCHANGED <<cfgVars, restVars, extVars, scorebot, scorebotEvents, result,
                   sleeping, reported, resultWrites, settled, gameOvers,
                   procVars, hpc, sides, tallyVars>>

\* steps 4 and 5: the CSGO client, then the listeners on the tracked handle
AttachClient ==
    /\ pc = "attach"
    /\ pc' = "logfile"
    /\ IF game = "csgo"
       THEN /\ gameClientProcess' = "proc"
            /\ clientAlive' = TRUE
            /\ closeListeners' = 2
       ELSE /\ closeListeners' = IF gameClientProcess # "null"
                                 THEN closeListeners + 1 ELSE closeListeners
            /\ UNCHANGED <<gameClientProcess, clientAlive>>
    /\ UNCHANGED <<cfgVars, restVars, extVars, abortCause, rcon, scorebot, scorebotEvents, result,
                   sleeping, reported, resultWrites, settled, gameOvers,
                   cleanupCalls, cleanupAwait, restores, files, hpc, sides,
                   tallyVars>>

\* a watcher created without waiting for rcon.init()
CreateWatcherEarly ==
    /\ pc \in {"rcon", "logfile"}
    /\ pc' = "scorebot"
    /\ scorebot' = "created"
    /\ UNCHANGED <<cfgVars, restVars, extVars, abortCause, rcon, scorebotEvents, result,
                   sleeping, reported, resultWrites, settled, gameOvers,
                   procVars, hpc, sides, tallyVars>>

\* step 6: await getGameLogFile(), new Scorebot.Watcher(logFile)
CreateWatcher ==
    /\ pc = "logfile"
    /\ pc' = "scorebot"
    /\ scorebot' = "created"
    /\ UNCHANGED <<cfgVars, restVars, extVars, abortCause, rcon, scorebotEvents, result,
                   sleeping, reported, resultWrites, settled, gameOvers,
                   procVars, hpc, sides, tallyVars>>

\* await this.scorebot.start() succeeded: steps 7 and 8 subscribe and the
\* promise of step 8 is pending
WatcherStarted ==
    /\ pc = "scorebot"
    /\ pc' = "watching"
    /\ scorebot' \in (IF scorebot = "quit" THEN {"quit", "started"} ELSE {"started"})
    /\ UNCHANGED <<cfgVars, restVars, extVars, abortCause, rcon, scorebotEvents, result,
                   sleeping, reported, resultWrites, settled, gameOvers,
                   procVars, hpc, sides, tallyVars>>

\* await this.scorebot.start() threw: logged and rethrown
WatcherStartThrows ==
    /\ pc = "scorebot"
    /\ pc' = "rejected"
    /\ abortCause' = "scorebot"
    /\ UNCHANGED <<cfgVars, restVars, extVars, rcon, scorebot, scorebotEvents, result,
                   sleeping, reported, resultWrites, settled, gameOvers,
                   procVars, hpc, sides, tallyVars>>

Subscribed == pc \in {"watching", "resolved"} /\ scorebot = "started"

\* callbacks that put the event at the front of the buffer
WatcherEventUnshifts ==
    /\ Subscribed
    /\ Len(scorebotEvents) < MaxBuffer
    /\ \E e \in WatchedEvents :
          /\ scorebotEvents' = <<e>> \o scorebotEvents
          /\ emitted' = Emit(e.type)
    /\ UNCHANGED <<cfgVars, restVars, outerVars, dbVars, faultVars, entering, sent, uncaught,
                   pc, abortCause, rcon, scorebot, result,
                   sleeping, reported, resultWrites, settled, gameOvers,
                   procVars, hpc, sides, tallyVars>>

\* callbacks of which only the ROUND_OVER one pushes to the buffer
WatcherEventRoundsOnly ==
    /\ Subscribed
    /\ Len(scorebotEvents) < MaxBuffer
    /\ \E e \in WatchedEvents :
          /\ scorebotEvents' = IF e.type = "roundover"
                               THEN Append(scorebotEvents, e) ELSE scorebotEvents
          /\ emitted' = Emit(e.type)
    /\ UNCHANGED <<cfgVars, restVars, outerVars, dbVars, faultVars, entering, sent, uncaught,
                   pc, abortCause, rcon, scorebot, result,
                   sleeping, reported, resultWrites, settled, gameOvers,
                   procVars, hpc, sides, tallyVars>>

\* PLAYER_ASSISTED, PLAYER_KILLED and ROUND_OVER callbacks
WatcherEvent ==
    /\ Subscribed
    /\ Len(scorebotEvents) < MaxBuffer
    /\ \E e \in WatchedEvents :
          /\ scorebotEvents' = Append(scorebotEvents, e)
          /\ emitted' = Emit(e.type)
    /\ UNCHANGED <<cfgVars, restVars, outerVars, dbVars, faultVars, entering, sent, uncaught,
                   pc, abortCause, rcon, scorebot, result,
                   sleeping, reported, resultWrites, settled, gameOvers,
                   procVars, hpc, sides, tallyVars>>

\* this.result = payload; resolve()
SetResult(score, raw) ==
    /\ result' = score
    /\ reported' = raw
    /\ resultWrites' = resultWrites + 1
    /\ pc' = "resolved"

\* GAME_OVER callback up to its first suspension
GameOver ==
    /\ Subscribed
    /\ gameOvers < MaxGameOvers
    /\ gameOvers' = gameOvers + 1
    /\ emitted' = Emit("gameover")
    /\ \E score \in GameOverScores :
          IF Delayed(game)
          THEN /\ sleeping' = Append(sleeping, score)
               /\ UNCHANGED <<pc, result, reported, resultWrites>>
          ELSE /\ SetResult(score, score)
               /\ UNCHANGED sleeping
    /\ UNCHANGED <<cfgVars, restVars, outerVars, dbVars, faultVars, entering, sent, uncaught, abortCause, rcon, scorebot, scorebotEvents, settled,
                   procVars, hpc, sides, tallyVars>>

\* GAME_OVER callback after Util.sleep(SERVER_CVAR_GAMEOVER_DELAY * 1000)
Settle ==
    /\ sleeping # <<>>
    /\ sleeping' = Tail(sleeping)
    /\ settled' = settled + 1
    /\ SetResult(Reordered(Head(sleeping), maxRounds, maxRoundsOT), Head(sleeping))
    /\ UNCHANGED <<cfgVars, restVars, extVars, abortCause, rcon, scorebot, scorebotEvents, gameOvers,
                   procVars, hpc, sides, tallyVars>>

\* FileManager.restore(path): puts back the files prepare() changed; nothing
\* to do when they are already back
FileRestore(f) == IF f = "prepared" THEN "restored" ELSE f

\* the client process closes: every registered 'close' listener runs
\* Server.cleanup up to its first suspension
ClientClose ==
    /\ clientAlive
    /\ clientFault # "pending"
    /\ clientAlive' = FALSE
    /\ cleanupCalls' = cleanupCalls + closeListeners
    /\ IF scorebot # "none"
       THEN /\ scorebot' = ScorebotQuit(scorebot)
            /\ cleanupAwait' = cleanupAwait + closeListeners
            /\ UNCHANGED <<gameClientProcess, restores, files>>
       ELSE /\ gameClientProcess' = "null"
            /\ restores' = restores + closeListeners
            /\ files' = FileRestore(files)
            /\ UNCHANGED <<scorebot, cleanupAwait>>
    /\ UNCHANGED <<cfgVars, restVars, extVars, pc, abortCause, rcon, scorebotEvents, result,
                   sleeping, reported, resultWrites, settled, gameOvers,
                   closeListeners, hpc, sides, tallyVars>>

\* a cleanup that restores the files and leaves the tracked handle
CleanupResumeKeepsHandle ==
    /\ cleanupAwait > 0
    /\ cleanupAwait' = cleanupAwait - 1
    /\ restores' = restores + 1
    /\ files' = FileRestore(files)
    /\ UNCHANGED <<cfgVars, restVars, extVars, srvVars, gameClientProcess, clientAlive,
                   closeListeners, cleanupCalls, hpc, sides, tallyVars>>

\* Server.cleanup after await this.scorebot.quit()
CleanupResume ==
    /\ cleanupAwait > 0
    /\ cleanupAwait' = cleanupAwait - 1
    /\ gameClientProcess' = "null"
    /\ restores' = restores + 1
    /\ files' = FileRestore(files)
    /\ UNCHANGED <<cfgVars, restVars, extVars, srvVars, clientAlive, closeListeners, cleanupCalls,
                   hpc, sides, tallyVars>>

(***************************************************************************)
(* Launches that fail.  spawn() throws for most errors of the operating    *)
(* system; for a missing executable (ENOENT, also EACCES) it returns a     *)
(* handle and reports the error on the next tick through the handle's      *)
(* 'error' event, followed by 'close'.                                     *)
(***************************************************************************)
\* step 2, spawn throws inside launchClientCS16 / CS2 / CSS / CZERO
LaunchThrows ==
    /\ pc = "launch"
    /\ game # "csgo"
    /\ pc' = "rejected"
    /\ abortCause' = "launch"
    /\ clientFault' = "threw"
    /\ UNCHANGED <<cfgVars, restVars, outerVars, dbVars, hookVars, server, rcon, scorebot, scorebotEvents, result,
                   sleeping, reported, resultWrites, settled, gameOvers,
                   procVars, hpc, sides, tallyVars>>

\* step 2, the client executable is missing: the handle is tracked and gets
\* its first 'close' listener, the start goes on
LaunchMissing ==
    /\ pc = "launch"
    /\ game # "csgo"
    /\ pc' = "rcon"
    /\ SpawnClient
    /\ clientFault' = "pending"
    /\ UNCHANGED <<cfgVars, restVars, outerVars, dbVars, hookVars, server, abortCause, rcon, scorebot,
                   scorebotEvents, result, sleeping, reported, resultWrites,
                   settled, gameOvers, cleanupCalls, cleanupAwait, restores, files,
                   hpc, sides, tallyVars>>

\* step 2, launchServerCSGO: srcds.exe is missing or does not start; the
\* detached cmd.exe is neither tracked nor observed
ServerLaunchFails ==
    /\ pc = "launch"
    /\ game = "csgo"
    /\ pc' = "rcon"
    /\ server' = "failed"
    /\ UNCHANGED <<cfgVars, restVars, outerVars, dbVars, hookVars, clientFault, abortCause, rcon, scorebot,
                   scorebotEvents, result, sleeping, reported, resultWrites,
                   settled, gameOvers, procVars, hpc, sides, tallyVars>>

\* step 4, spawn throws inside launchClientCSGO
AttachThrows ==
    /\ pc = "attach"
    /\ game = "csgo"
    /\ pc' = "rejected"
    /\ abortCause' = "launch"
    /\ clientFault' = "threw"
    /\ UNCHANGED <<cfgVars, restVars, outerVars, dbVars, hookVars, server, rcon, scorebot, scorebotEvents, result,
                   sleeping, reported, resultWrites, settled, gameOvers,
                   procVars, hpc, sides, tallyVars>>

\* steps 4 and 5, the CSGO client executable is missing: the handle is
\* tracked, step 5 attaches its listeners before the error is reported
AttachMissing ==
    /\ pc = "attach"
    /\ game = "csgo"
    /\ pc' = "logfile"
    /\ gameClientProcess' = "proc"
    /\ clientAlive' = TRUE
    /\ closeListeners' = 2
    /\ clientFault' = "pending"
    /\ UNCHANGED <<cfgVars, restVars, outerVars, dbVars, hookVars, server, abortCause, rcon, scorebot,
                   scorebotEvents, result, sleeping, reported, resultWrites,
                   settled, gameOvers, cleanupCalls, cleanupAwait, restores, files,
                   hpc, sides, tallyVars>>

\* the 'error' listener of step 5 is attached together with the second
\* 'close' listener
ErrorListener == closeListeners = 2

\* the handle emits 'error': logged by the listener of step 5 when it is
\* attached, thrown by the emitter as an uncaught exception when it is not
ClientErrorEvent ==
    /\ clientFault = "pending"
    /\ clientFault' = IF ErrorListener THEN "logged" ELSE "uncaught"
    /\ UNCHANGED <<cfgVars, restVars, outerVars, dbVars, hookVars, server, srvVars, procVars, hpc, sides, tallyVars>>

(***************************************************************************)
(* isRunningAndThrow(name), called for the executable of the client or of  *)
(* the dedicated server.                                                   *)
(***************************************************************************)
GuardNames == {"client", "server"}

\* a process of that name started by this application is running
OwnRunning(name) ==
    IF name = "client"
    THEN (clientAlive /\ clientFault = "none") \/ peer = "running"
    ELSE server = "up"

\* where the process of that name in the process table comes from; it is
\* a singleton, so another instance can run only when ours does not
Origins(name) ==
    IF OwnRunning(name) THEN {"own"} ELSE {"absent", "external"}

\* await exec('tasklist') rejects with the error of the command; otherwise
\* isRunning && !gameClientProcess decides
GuardOutcome(tasklist, origin, handle) ==
    IF tasklist = "error" THEN "rejects"
    ELSE IF origin # "absent" /\ handle = "null" THEN "throws" ELSE "passes"

IsRunningAndThrow ==
    /\ \E name \in GuardNames, tasklist \in {"ok", "error"} :
          \E origin \in Origins(name) :
             guard' = [name |-> name, tasklist |-> tasklist, origin |-> origin,
                       outcome |-> GuardOutcome(tasklist, origin, gameClientProcess)]
    /\ UNCHANGED <<cfgVars, restVars, hookVars, faultVars, dbVars, srvVars, procVars, hpc,
                   sides, tallyVars>>

(***************************************************************************)
(* A second Server started in the same process while the first one waits   *)
(* for GAME_OVER.  Both assign the module-level gameClientProcess.         *)
(***************************************************************************)
\* the launchClient* step of the second Server: gameClientProcess = spawn(..)
PeerLaunch ==
    /\ pc \in {"watching", "resolved"}
    /\ peer = "none"
    /\ peer' = "running"
    /\ gameClientProcess' = "peer"
    /\ UNCHANGED <<cfgVars, attrVars, vetoVars, extVars, srvVars, clientAlive, closeListeners,
                   cleanupCalls, cleanupAwait, restores, files, hpc, sides,
                   tallyVars>>

\* the client of the second Server closes and its cleanup runs to the end
PeerClose ==
    /\ peer = "running"
    /\ peer' = "closed"
    /\ gameClientProcess' = "null"
    /\ UNCHANGED <<cfgVars, attrVars, vetoVars, extVars, srvVars, clientAlive, closeListeners,
                   cleanupCalls, cleanupAwait, restores, files, hpc, sides,
                   tallyVars>>

(***************************************************************************)
(* The SAY and PLAYER_ENTERED hooks and the console client they use.       *)
(***************************************************************************)
\* chat lines the watcher reports
SayPayloads == {".ready", "gl hf"}

\* RCON.Client.send: the command is delivered over an open connection; it
\* fails when the client never connected or its transport closed
RconSend(state) == IF state = "connected" THEN "delivered" ELSE "fails"

\* this.rcon.send(...) inside an async callback, neither awaited nor caught:
\* a failed send is a rejected promise without a handler
AfterSend(outcome) ==
    [sent |-> IF outcome = "delivered" THEN sent + 1 ELSE sent,
     uncaught |-> IF outcome = "fails" THEN uncaught + 1 ELSE uncaught]

\* SAY and PLAYER_ENTERED events reported so far
HookEvents == emitted["say"] + emitted["playerentered"]

\* SAY callback: '.ready' in CS2 sends mp_warmup_end
SayReady ==
    /\ Subscribed
    /\ HookEvents < MaxHooks
    /\ emitted' = Emit("say")
    /\ \E payload \in SayPayloads :
          IF payload = ".ready" /\ game = "cs2"
          THEN /\ sent' = AfterSend(RconSend(rcon)).sent
               /\ uncaught' = AfterSend(RconSend(rcon)).uncaught
          ELSE UNCHANGED <<sent, uncaught>>
    /\ UNCHANGED <<cfgVars, restVars, outerVars, dbVars, faultVars, srvVars, procVars, hpc, sides, tallyVars,
                   entering>>

\* PLAYER_ENTERED callback up to its suspension in Util.sleep
PlayerEntered ==
    /\ Subscribed
    /\ HookEvents < MaxHooks
    /\ emitted' = Emit("playerentered")
    /\ entering' = IF game = "cs2" THEN entering + 1 ELSE entering
    /\ UNCHANGED <<cfgVars, restVars, outerVars, dbVars, faultVars, srvVars, procVars, hpc, sides, tallyVars,
                   sent, uncaught>>

\* PLAYER_ENTERED callback after Util.sleep: sends exec liga-bots
PlayerEnteredSend ==
    /\ entering > 0
    /\ entering' = entering - 1
    /\ sent' = AfterSend(RconSend(rcon)).sent
    /\ uncaught' = AfterSend(RconSend(rcon)).uncaught
    /\ UNCHANGED <<cfgVars, restVars, outerVars, dbVars, faultVars, srvVars, procVars, hpc, sides, tallyVars,
                   emitted>>

\* the server shuts down and the transport of the console client closes
RconTransportCloses ==
    /\ rcon = "connected"
    /\ rcon' = "closed"
    /\ UNCHANGED <<cfgVars, restVars, extVars, pc, abortCause, scorebot, scorebotEvents,
                   result, sleeping, reported, resultWrites, settled, gameOvers,
                   procVars, hpc, sides, tallyVars>>

(***************************************************************************)
(* The faceit:startMatch handler.                                          *)
(***************************************************************************)
\* what getFaceitSides() returns: the sides drawn once for the match
FaceitSides == {SidesTCT, SidesCTT}

\* await game.start() resolved: getFaceitSides(), then prisma.match.update
\* stores the sides in the payload
HandlerStartResolved ==
    /\ hpc = "start"
    /\ pc = "resolved"
    /\ hpc' = "update"
    /\ sides' \in FaceitSides
    /\ UNCHANGED <<cfgVars, restVars, extVars, srvVars, procVars, tallyVars>>

\* await game.start() rejected: the handler logs and rethrows
HandlerStartRejected ==
    /\ hpc = "start"
    /\ pc = "rejected"
    /\ hpc' = "failed"
    /\ UNCHANGED <<cfgVars, restVars, extVars, srvVars, procVars, sides, tallyVars>>

(***************************************************************************)
(* saveFaceitResult: attribution of the buffered events to roster players. *)
(***************************************************************************)
\* a key that is null or undefined
Null == "null"
\* return null of resolvePlayerId
NullId == 0

PlayerNames == {"a", "b"}
SteamIds == {"S1", "S2"}
ServerIds == {"3", "4"}

\* MatchPlayerLite rows of a roster of two players with ids 1 and 2
PlayerRows(i) ==
    [id : {i}, name : PlayerNames, steamId : {Null} \cup SteamIds,
     serverId : {Null} \cup ServerIds]
Rosters == {<<p, q>> : p \in PlayerRows(1), q \in PlayerRows(2)}

\* the attacker, victim or assist of a payload; bots report steamId "BOT"
Refs ==
    [name : {Null, "c"} \cup PlayerNames,
     steamId : {Null, "BOT"} \cup SteamIds,
     serverId : {Null} \cup ServerIds]
\* event.payload.attacker ?? null, then attacker?.name ?? null ...
NoRef == [name |-> Null, steamId |-> Null, serverId |-> Null]
Entity(event, key) == IF key \in DOMAIN event THEN event[key] ELSE NoRef

\* players.find(p => p[key] === value): index of the first match, 0 if none
Find(ps, key, value) ==
    LET hits == {i \in 1..Len(ps) : ps[i][key] = value}
    IN  IF hits = {} THEN 0 ELSE Least(hits)

\* resolvePlayerId in which the name is tried before the other keys
resolvePlayerIdNameFirst(ps, name, steamId, serverId) ==
    LET bySteam == Find(ps, "steamId", steamId)
        byServer == Find(ps, "serverId", serverId)
        byName == Find(ps, "name", name)
    IN  IF name # Null /\ byName # 0 THEN ps[byName].id
        ELSE IF steamId # Null /\ steamId # "BOT" /\ bySteam # 0
        THEN ps[bySteam].id
        ELSE IF serverId # Null /\ byServer # 0 THEN ps[byServer].id
        ELSE NullId

resolvePlayerId(ps, name, steamId, serverId) ==
    LET bySteam == Find(ps, "steamId", steamId)
        byServer == Find(ps, "serverId", serverId)
        byName == Find(ps, "name", name)
    IN  IF steamId # Null /\ steamId # "BOT" /\ bySteam # 0
        THEN ps[bySteam].id
        ELSE IF serverId # Null /\ byServer # 0 THEN ps[byServer].id
        ELSE IF name # Null /\ byName # 0 THEN ps[byName].id
        ELSE NullId

Resolve(ps, ref) == resolvePlayerId(ps, ref.name, ref.steamId, ref.serverId)

\* the row events.map builds for one event
EventRow(event, ps) ==
    [type |-> event.type,
     attackerId |-> Resolve(ps, Entity(event, "attacker")),
     victimId |-> Resolve(ps, Entity(event, "victim")),
     assistId |-> Resolve(ps, Entity(event, "assist"))]

\* events.map that leaves out the events with an unresolved reference
eventsToCreateResolved(events, ps) ==
    LET rows == [i \in 1..Len(events) |-> EventRow(events[i], ps)]
    IN  SelectSeq(rows, LAMBDA r : /\ r.attackerId # NullId
                                   /\ r.victimId # NullId)

\* const eventsToCreate = events.map(...)
eventsToCreate(events, ps) ==
    [i \in 1..Len(events) |-> EventRow(events[i], ps)]

\* saveFaceitResult is called: roundEvents is filtered from the buffer
SaveInvoked ==
    /\ hpc = "update"
    /\ hpc' = "save"
    /\ roundEvents' = RoundOvers(scorebotEvents)
    /\ UNCHANGED <<cfgVars, restVars, extVars, srvVars, procVars, sides, idx, scoreA, scoreB, half,
                   rounds, w, effectiveWinner>>

\* saveFaceitResult after prisma.match.findFirst: the loop, run to its end
SaveTally ==
    /\ hpc = "save"
    /\ hpc' = "persist"
    /\ SetAcc(Tally(TallyStart, roundEvents, maxRounds, maxRoundsOT, sides))
    /\ idx' = Len(roundEvents)
    /\ UNCHANGED <<cfgVars, restVars, extVars, srvVars, procVars, sides, roundEvents>>

\* a result in which a tie counts as a win
MatchResultTieWins(own, other) ==
    IF own >= other THEN "win" ELSE "loss"

\* competitors.updateMany: WIN, LOSS or DRAW of the team with tally own
MatchResult(own, other) ==
    IF own > other THEN "win"
    ELSE IF own < other THEN "loss" ELSE "draw"

playerTeamId(rm) == IF rm.userTeamA THEN 1 ELSE 2

playerWin(rm, a, b) ==
    \/ playerTeamId(rm) = 1 /\ a > b
    \/ playerTeamId(rm) = 2 /\ b > a

eloGain(rm) == rm.elo[1]
eloLoss(rm) == rm.elo[2]

\* a delta whose losing branch takes the gain
DeltaOfGain(rm, win) == IF win THEN eloGain(rm) ELSE 0 - eloGain(rm)

\* const delta = playerWin ? eloGain : -eloLoss
Delta(rm, win) == IF win THEN eloGain(rm) ELSE 0 - eloLoss(rm)

\* rating updates in which each side gets its own gain or loss
PersistedPerSide(rm, a, b, rows) ==
    LET win == playerWin(rm, a, b)
        delta == Delta(rm, win)
    IN  [status |-> "completed", score |-> <<a, b>>,
         resultA |-> MatchResult(a, b), resultB |-> MatchResult(b, a),
         faceitIsWin |-> IF win THEN "true" ELSE "false",
         faceitEloDelta |-> delta,
         profileDelta |-> delta, teamADelta |-> delta,
         teamBDelta |-> Delta(rm, ~win), events |-> rows]

\* the two prisma.match.update calls and the rating updates between them
Persisted(rm, a, b, rows) ==
    LET win == playerWin(rm, a, b)
        delta == Delta(rm, win)
    IN  [status |-> "completed", score |-> <<a, b>>,
         resultA |-> MatchResult(a, b), resultB |-> MatchResult(b, a),
         faceitIsWin |-> IF win THEN "true" ELSE "false",
         faceitEloDelta |-> delta,
         profileDelta |-> delta, teamADelta |-> delta, teamBDelta |-> 0 - delta,
         events |-> rows]

\* saveFaceitResult after the loop: it writes the match and the ratings,
\* returns true, and the handler returns
SaveReturns ==
    /\ hpc = "persist"
    /\ hpc' = "ok"
    /\ db' = Persisted(room, scoreA, scoreB,
                        eventsToCreate(scorebotEvents, players))
    /\ UNCHANGED <<cfgVars, restVars, hookVars, faultVars, outerVars, room, srvVars, procVars,
                   sides, tallyVars>>

Next ==
    \/ PrepareDone \/ PrepareThrows \/ Launch \/ RconInit \/ AttachClient
    \/ CreateWatcher \/ WatcherStarted \/ WatcherStartThrows
    \/ WatcherEvent \/ GameOver \/ Settle
    \/ ClientClose \/ CleanupResume
    \/ HandlerStartResolved \/ HandlerStartRejected
    \/ SaveInvoked \/ SaveTally \/ SaveReturns

Spec == Init /\ [][Next]_vars

\* Server.start waiting for GAME_OVER (step 8), after a start without
\* failure other than that of rcon.init()
InitWatching ==
    /\ game \in Games
    /\ maxRounds = DefaultMaxRounds
    /\ maxRoundsOT = DefaultMaxRoundsOvertime
    /\ pc = "watching" /\ abortCause = "none"
    /\ rcon \in {"connected", "failed"} /\ scorebot = "started"
    /\ scorebotEvents = <<>>
    /\ result = <<>> /\ sleeping = <<>> /\ reported = <<>>
    /\ resultWrites = 0 /\ settled = 0 /\ gameOvers = 0
    /\ gameClientProcess = "proc" /\ clientAlive = TRUE /\ closeListeners = 2
    /\ cleanupCalls = 0 /\ cleanupAwait = 0 /\ restores = 0
    /\ files = "prepared"
    /\ hpc = "start"
    /\ sides = NoSides
    /\ roundEvents = <<>>
    /\ idx = 0
    /\ scoreA = TallyStart.scoreA /\ scoreB = TallyStart.scoreB
    /\ half = TallyStart.half /\ rounds = TallyStart.rounds
    /\ w = TallyStart.w /\ effectiveWinner = TallyStart.effectiveWinner
    /\ emitted = [k \in EventKinds |-> 0]
    /\ entering = 0 /\ sent = 0 /\ uncaught = 0
    /\ server = (IF game = "csgo" THEN "up" ELSE "none") /\ clientFault = "none"
    /\ guard = NoGuard
    /\ room = EvenRoom /\ db = NoWrites
    /\ players = <<>>
    /\ peer = "none"
    /\ VetoIdle

\* what happens while Server.start waits: the callbacks of every event kind,
\* the console transport closing, the client closing
NextHooks ==
    \/ WatcherEvent \/ GameOver \/ Settle
    \/ SayReady \/ PlayerEntered \/ PlayerEnteredSend \/ RconTransportCloses
    \/ ClientClose \/ CleanupResume

SpecHooks == InitWatching /\ [][NextHooks]_vars

\* the orchestration with launches that fail
NextLaunch ==
    \/ Next
    \/ LaunchThrows \/ LaunchMissing \/ ServerLaunchFails
    \/ AttachThrows \/ AttachMissing \/ ClientErrorEvent

SpecLaunch == Init /\ [][NextLaunch]_vars

\* saveFaceitResult called by the handler after it stored the sides, or by
\* another caller for a session without GAME_OVER
InitSave ==
    /\ game = "csgo"
    /\ maxRounds = DefaultMaxRounds
    /\ maxRoundsOT = DefaultMaxRoundsOvertime
    /\ abortCause = "none"
    /\ rcon = "connected" /\ scorebot = "started"
    /\ scorebotEvents \in SeqsUpTo(WatchedEvents, MaxBuffer)
    /\ \/ /\ pc = "resolved"
          /\ result = <<4, 2>> /\ reported = <<4, 2>>
          /\ resultWrites = 1 /\ settled = 1 /\ gameOvers = 1
       \/ /\ pc = "watching"
          /\ result = <<>> /\ reported = <<>>
          /\ resultWrites = 0 /\ settled = 0 /\ gameOvers = 0
    /\ sleeping = <<>>
    /\ gameClientProcess = "proc" /\ clientAlive = TRUE /\ closeListeners = 2
    /\ cleanupCalls = 0 /\ cleanupAwait = 0 /\ restores = 0
    /\ files = "prepared"
    /\ hpc = "update"
    /\ sides \in FaceitSides
    /\ roundEvents = <<>>
    /\ idx = 0
    /\ scoreA = TallyStart.scoreA /\ scoreB = TallyStart.scoreB
    /\ half = TallyStart.half /\ rounds = TallyStart.rounds
    /\ w = TallyStart.w /\ effectiveWinner = TallyStart.effectiveWinner
    /\ emitted = [k \in EventKinds |->
                      IF k \in {"playerassisted", "playerkilled", "roundover"}
                      THEN Len(SelectSeq(scorebotEvents, LAMBDA e : e.type = k))
                      ELSE IF k = "gameover" THEN gameOvers ELSE 0]
    /\ entering = 0 /\ sent = 0 /\ uncaught = 0
    /\ server = "up" /\ clientFault = "none"
    /\ guard = NoGuard
    /\ room \in Rooms /\ db = NoWrites
    /\ players = <<>>
    /\ peer = "none"
    /\ VetoIdle

NextSave == SaveInvoked \/ SaveTally \/ SaveReturns

SpecSave == InitSave /\ [][NextSave]_vars

\* saveFaceitResult called for a buffer whose events refer to players
\* one kill whose attacker carries any combination of the three keys
ReferenceEvents ==
    {[type |-> "playerkilled", attacker |-> r, victim |-> NoRef] : r \in Refs}

\* references by serverId and name only, as the log lines of bots give them
BotRefs == {r \in Refs : r.steamId = "BOT" /\ r.serverId # "4" /\ r.name # "a"}
\* rosters whose first player is known by serverId, the second by name
ServerRosters ==
    {ps \in Rosters : /\ ps[1].steamId = Null /\ ps[2].steamId = Null
                      /\ ps[1].serverId = "3" /\ ps[2].serverId = Null
                      /\ ps[1].name = "a" /\ ps[2].name = "b"}
AttributedEvents ==
    {[type |-> "playerkilled", attacker |-> a, victim |-> v] :
         a \in BotRefs, v \in BotRefs}
    \cup {[type |-> "playerassisted", assist |-> a, victim |-> NoRef] :
              a \in BotRefs}
    \cup {RoundOver(0)}

InitAttribution ==
    /\ game = "csgo"
    /\ maxRounds = DefaultMaxRounds
    /\ maxRoundsOT = DefaultMaxRoundsOvertime
    /\ abortCause = "none"
    /\ rcon = "connected" /\ scorebot = "started"
    /\ \/ /\ players \in Rosters
          /\ scorebotEvents \in {<<e>> : e \in ReferenceEvents}
       \/ /\ players \in ServerRosters
          /\ scorebotEvents \in SeqsUpTo(AttributedEvents, MaxAttributed)
    /\ pc = "resolved"
    /\ result = <<4, 2>> /\ reported = <<4, 2>>
    /\ resultWrites = 1 /\ settled = 1 /\ gameOvers = 1
    /\ sleeping = <<>>
    /\ gameClientProcess = "proc" /\ clientAlive = TRUE /\ closeListeners = 2
    /\ cleanupCalls = 0 /\ cleanupAwait = 0 /\ restores = 0
    /\ files = "prepared"
    /\ hpc = "update"
    /\ sides = SidesTCT
    /\ roundEvents = <<>>
    /\ idx = 0
    /\ scoreA = TallyStart.scoreA /\ scoreB = TallyStart.scoreB
    /\ half = TallyStart.half /\ rounds = TallyStart.rounds
    /\ w = TallyStart.w /\ effectiveWinner = TallyStart.effectiveWinner
    /\ emitted = [k \in EventKinds |->
                      IF k \in {"playerassisted", "playerkilled", "roundover"}
                      THEN Len(SelectSeq(scorebotEvents, LAMBDA e : e.type = k))
                      ELSE IF k = "gameover" THEN gameOvers ELSE 0]
    /\ entering = 0 /\ sent = 0 /\ uncaught = 0
    /\ server = "up" /\ clientFault = "none"
    /\ guard = NoGuard
    /\ room = EvenRoom /\ db = NoWrites
    /\ peer = "none"
    /\ VetoIdle

SpecAttribution == InitAttribution /\ [][NextSave]_vars

\* the life of the processes of one session, with calls of the guard
NextGuard ==
    \/ PrepareDone \/ PrepareThrows \/ Launch \/ RconInit \/ AttachClient
    \/ CreateWatcher \/ WatcherStarted \/ WatcherStartThrows
    \/ ClientClose \/ CleanupResume
    \/ IsRunningAndThrow

SpecGuard == Init /\ [][NextGuard]_vars

\* the match room before the match is started
InitVeto ==
    /\ game = "csgo"
    /\ maxRounds = DefaultMaxRounds
    /\ maxRoundsOT = DefaultMaxRoundsOvertime
    /\ pc = "prepare" /\ abortCause = "none"
    /\ rcon = "none" /\ scorebot = "none"
    /\ scorebotEvents = <<>>
    /\ result = <<>> /\ sleeping = <<>> /\ reported = <<>>
    /\ resultWrites = 0 /\ settled = 0 /\ gameOvers = 0
    /\ gameClientProcess = "null" /\ clientAlive = FALSE /\ closeListeners = 0
    /\ cleanupCalls = 0 /\ cleanupAwait = 0 /\ restores = 0
    /\ files = "original"
    /\ hpc = "start"
    /\ sides = NoSides
    /\ roundEvents = <<>>
    /\ idx = 0
    /\ scoreA = TallyStart.scoreA /\ scoreB = TallyStart.scoreB
    /\ half = TallyStart.half /\ rounds = TallyStart.rounds
    /\ w = TallyStart.w /\ effectiveWinner = TallyStart.effectiveWinner
    /\ emitted = [k \in EventKinds |-> 0]
    /\ entering = 0 /\ sent = 0 /\ uncaught = 0
    /\ server = "none" /\ clientFault = "none"
    /\ guard = NoGuard
    /\ room = EvenRoom /\ db = NoWrites
    /\ players = <<>>
    /\ peer = "none"
    /\ veto = NoVeto /\ mapPool = {}
    /\ userIsCaptainA \in BOOLEAN /\ selectedMap = NoMap

NextVeto ==
    \/ LoadMapPool \/ handleUserBan \/ CpuBanTeamB \/ CpuBanTeamA
    \/ AutoDecider \/ handleStartMatch

SpecVeto == InitVeto /\ [][NextVeto]_vars

\* two sessions in one process, with calls of the guard
NextSessions == NextGuard \/ PeerLaunch \/ PeerClose

SpecSessions == Init /\ [][NextSessions]_vars

(***************************************************************************)
(* Claims about the reconciliation loop (checked under SpecTally).         *)
(***************************************************************************)
\* rounds - 1 numeric rounds have been tallied; the last one is round rounds - 1
RoundsTallied == rounds - 1

LastRoundNumeric == idx > 0 /\ IsNumber(w)

\* C1: while the number of tallied rounds stays within maxRounds, half has
\* been incremented once after round maxRounds/2 and once after round
\* maxRounds and at no other round, and the round just tallied was attributed
\* with its raw winner in rounds 1..maxRounds/2 and with the inverted winner
\* in rounds maxRounds/2+1..maxRounds.
RegulationSideParity ==
    RoundsTallied <= maxRounds =>
        /\ half = (IF 2 * RoundsTallied >= maxRounds THEN 1 ELSE 0)
                  + (IF RoundsTallied >= maxRounds THEN 1 ELSE 0)
        /\ LastRoundNumeric =>
               effectiveWinner = IF 2 * RoundsTallied <= maxRounds
                                 THEN w ELSE flipWinner(w)

\* a full regulation was tallied and its last round was inverted
RegulationSideParityWitness ==
    /\ hpc = "persist"
    /\ RoundsTallied = maxRounds
    /\ half = 2
    /\ LastRoundNumeric
    /\ effectiveWinner = flipWinner(w)

\* half boundaries (midpoint or end of an overtime block) among the overtime
\* rounds before round r, after the two boundaries of regulation
HalfBoundariesBefore(r, R, O) ==
    2 + Cardinality({k \in 1..(r - R - 1) :
                        \/ 2 * (((k - 1) % O) + 1) = O
                        \/ ((k - 1) % O) + 1 = O})

\* the attribution C2 states for an overtime round r with raw winner x
OvertimeAttribution(x, r, R, O) ==
    LET blockInverted == IF (((r - R) + O - 1) \div O) % 2 = 1
                         THEN flipWinner(x) ELSE x
    IN  IF HalfBoundariesBefore(r, R, O) % 2 = 1
        THEN flipWinner(blockInverted) ELSE blockInverted

\* C2: an overtime round r > maxRounds is attributed after an inversion applied
\* iff ceil((r - maxRounds)/maxRoundsOT) is odd, followed by the half-parity
\* inversion, which flips at the midpoint and the end of each overtime block.
OvertimeSideParity ==
    (LastRoundNumeric /\ RoundsTallied > maxRounds) =>
        effectiveWinner =
            OvertimeAttribution(w, RoundsTallied, maxRounds, maxRoundsOT)

ScenarioRounds == <<RoundOver(0), RoundOver(0), RoundOver(0),
                    RoundOver(1), RoundOver(1), RoundOver(1)>>

ScenarioTallied ==
    /\ maxRounds = 6 /\ maxRoundsOT = 6
    /\ roundEvents = ScenarioRounds
    /\ hpc = "persist"

\* C3 (as amended): with maxRounds = 6, maxRoundsOvertime = 6 and raw winners
\* [0,0,0,1,1,1] the tally is scoreA = 6, scoreB = 0 for sides {1:'t',2:'ct'}
\* and scoreA = 0, scoreB = 6 for sides {1:'ct',2:'t'}.
RegulationScenario ==
    ScenarioTallied =>
        /\ sides = SidesTCT => (scoreA = 6 /\ scoreB = 0)
        /\ sides = SidesCTT => (scoreA = 0 /\ scoreB = 6)

RegulationScenarioWitness ==
    ScenarioTallied /\ sides = SidesTCT /\ scoreA = 6 /\ half = 2

\* C3 (as stated): the same scenario ends in the tie scoreA = 3, scoreB = 3
\* for either starting side assignment.
RegulationScenarioTie ==
    (ScenarioTallied /\ sides \in {SidesTCT, SidesCTT}) =>
        (scoreA = 3 /\ scoreB = 3)

NumericRounds(evs) == Len(SelectSeq(evs, LAMBDA e : IsNumber(e.winner)))

\* C4: after the loop, scoreA + scoreB is the number of ROUND_OVER events with
\* a numeric winner, for every configuration and also when the payload has no
\* sides map.
TallyConservation ==
    hpc = "persist" => scoreA + scoreB = NumericRounds(roundEvents)

\* the ROUND_OVER events whose winner is the index of a side
WellFormed(evs) == SelectSeq(evs, LAMBDA e : e.winner \in {0, 1})

\* the first n events of the list
Seen(n) == SubSeq(roundEvents, 1, n)

\* C17: a ROUND_OVER event without a numeric winner changes neither tally,
\* nor the round counter, nor the half counter: after any number of
\* iterations the four counters are those of the loop run over the events
\* seen so far with the malformed ones removed, and the round counter has
\* advanced once per well-formed event.
MalformedRoundsSkipped ==
    LET clean == Tally(TallyStart, WellFormed(Seen(idx)), maxRounds, maxRoundsOT, sides)
    IN  /\ scoreA = clean.scoreA /\ scoreB = clean.scoreB
        /\ half = clean.half /\ rounds = clean.rounds
        /\ rounds = 1 + Len(WellFormed(Seen(idx)))

\* a malformed event between two well-formed ones was passed over
MalformedRoundsSkippedWitness ==
    /\ hpc = "persist"
    /\ Len(roundEvents) = 3
    /\ roundEvents[1].winner = 0
    /\ roundEvents[2].winner = Malformed
    /\ roundEvents[3].winner = 0
    /\ sides = SidesTCT
    /\ rounds = 3 /\ scoreA + scoreB = 2

(***************************************************************************)
(* Claims about Server.start and the handler (checked under Spec).         *)
(***************************************************************************)
\* the games whose GAME_OVER callback delays and reorders
SettleGames == {"cs2", "csgo"}

DefaultRules == maxRounds = 6 /\ maxRoundsOT = 6

\* C5 (as amended): with maxRounds = 6 and maxRoundsOvertime = 6, in CS2 and
\* CSGO, a GAME_OVER payload whose scores total 20 (a 14-round excess, three
\* overtime blocks) has its score pair reversed, and so has one whose scores
\* total 19 (a 13-round excess, three overtime blocks).
GameOverReordering ==
    (resultWrites > 0 /\ game \in SettleGames /\ DefaultRules
       /\ Total(reported) \in {19, 20}) =>
        result = Reversed(reported)

GameOverReorderingWitness ==
    /\ game = "csgo" /\ DefaultRules
    /\ reported = <<16, 4>>
    /\ result = <<4, 16>>
    /\ pc = "resolved"

\* C5 (as stated): a payload whose scores total 20 keeps its order and one
\* whose scores total 19 is reversed.
GameOverReorderingAsStated ==
    (resultWrites > 0 /\ game \in SettleGames /\ DefaultRules) =>
        /\ Total(reported) = 20 => result = reported
        /\ Total(reported) = 19 => result = Reversed(reported)

IsPrefix(a, b) == Len(a) <= Len(b) /\ SubSeq(b, 1, Len(a)) = a

\* C6 (as amended): result is set and the promise resolved only after a
\* GAME_OVER was observed, in CS2 and CSGO only after the settle delay of that
\* event elapsed and in the other games at once; saveFaceitResult is invoked
\* only after the promise resolved, and the ROUND_OVER events it tallies were
\* in the buffer when it was invoked.
FinalizationOrdering ==
    /\ resultWrites > 0 => gameOvers > 0
    /\ resultWrites <= gameOvers
    /\ game \in SettleGames => resultWrites = settled
    /\ game \notin SettleGames => settled = 0
    /\ pc = "resolved" <=> resultWrites > 0
    /\ hpc \in {"update", "save", "persist", "ok"} => pc = "resolved"
    /\ hpc \in {"save", "persist", "ok"} =>
           IsPrefix(roundEvents, RoundOvers(scorebotEvents))

FinalizationOrderingWitness ==
    /\ game = "csgo"
    /\ hpc = "persist"
    /\ settled = 1 /\ gameOvers = 1
    /\ Len(roundEvents) = 2
    /\ scoreA + scoreB = 2

\* C6 (as stated): result is set only after a GAME_OVER was observed and the
\* fixed settle delay has elapsed.
FinalizationAfterSettleDelay ==
    resultWrites > 0 => (gameOvers > 0 /\ settled > 0)

\* C7: once assigned, result is never assigned again nor changed, whatever
\* the watcher reports afterwards.
SingleResult == [][result # <<>> => result' = result]_vars

\* the client closed and every cleanup it started has run to its end
TornDown == ~clientAlive /\ cleanupCalls > 0 /\ cleanupAwait = 0

\* C8: the promise of Server.start does not stay pending: once the teardown
\* ran and stopped a watcher that was delivering events, before any GAME_OVER,
\* the promise is rejected.
CompletionSettles ==
    (TornDown /\ scorebot = "quit" /\ gameOvers = 0 /\ scorebotEvents # <<>>
       /\ pc \in {"watching", "resolved", "rejected"}) =>
        pc = "rejected"

\* C9: whenever Server.start has ended, by resolving or by throwing,
\* Server.cleanup has been invoked.
CleanupOnTerminalPaths ==
    pc \in {"resolved", "rejected"} => cleanupCalls > 0

\* C10: a rejected rcon.init() does not abort Server.start: the start leaves
\* the init attempt for the client launch, and after a failed init only the
\* watcher start can still reject it.
DegradedConsoleMode ==
    rcon = "failed" =>
        /\ pc \in {"attach", "logfile", "scorebot", "watching", "resolved", "rejected"}
        /\ pc = "rejected" => abortCause = "scorebot"

\* after a failed init the CSGO client was launched, events were buffered and
\* the promise resolved on GAME_OVER
DegradedConsoleModeWitness ==
    /\ rcon = "failed"
    /\ game = "csgo" /\ clientAlive
    /\ scorebot = "started"
    /\ Len(scorebotEvents) = 2
    /\ pc = "resolved" /\ result = <<4, 2>>

ConsoleErrorsContained == uncaught = 0

\* the kinds whose callback pushes to scorebotEvents
BufferedKinds == {"playerassisted", "playerkilled", "roundover"}

CountKind(evs, kind) == Len(SelectSeq(evs, LAMBDA e : e.type = kind))

EmittedBuffered ==
    emitted["playerassisted"] + emitted["playerkilled"] + emitted["roundover"]

EmittedOther == emitted["say"] + emitted["playerentered"] + emitted["gameover"]

\* C16 (as amended): at every moment the buffer holds exactly the
\* PLAYER_KILLED, PLAYER_ASSISTED and ROUND_OVER events emitted so far, each
\* appended when it arrived; PLAYER_ENTERED, SAY and GAME_OVER events are
\* not in it.
EventAccumulationBuffered ==
    /\ \A kind \in BufferedKinds : CountKind(scorebotEvents, kind) = emitted[kind]
    /\ Len(scorebotEvents) = EmittedBuffered

\* two events are buffered and a chat line, a player entering and a
\* GAME_OVER were reported
EventAccumulationBufferedWitness ==
    /\ Len(scorebotEvents) = 2
    /\ CountKind(scorebotEvents, "playerkilled") = 1
    /\ CountKind(scorebotEvents, "roundover") = 1
    /\ emitted["say"] = 1 /\ emitted["playerentered"] = 1
    /\ emitted["gameover"] = 1

\* C16 (as stated): the buffer holds every event the watcher emitted, of
\* every kind.
EventAccumulation ==
    Len(scorebotEvents) = EmittedBuffered + EmittedOther

(***************************************************************************)
(* Claims about launches (checked under SpecLaunch).                       *)
(***************************************************************************)
LaunchFailed == server = "failed" \/ clientFault # "none"

\* C12: when the spawn of the dedicated server or of the game client failed,
\* Server.start is rejected with the launch error and has not gone on to the
\* console connection or to watching.
LaunchFailureAborts ==
    LaunchFailed => (pc = "rejected" /\ abortCause = "launch")

(***************************************************************************)
(* Claims about isRunningAndThrow (checked under SpecGuard).               *)
(***************************************************************************)
\* C13: when the process table could be read, isRunningAndThrow throws
\* exactly when a process of that name is in the table and was not started
\* by this application; it never throws for a process this application
\* started and that still runs.
AlreadyRunningGuard ==
    guard.tasklist = "ok" =>
        /\ guard.outcome = "throws" <=> guard.origin = "external"
        /\ guard.origin = "own" => guard.outcome = "passes"

\* C14: when the tasklist command fails, isRunningAndThrow completes
\* without throwing.
FailOpenInspection ==
    guard.tasklist = "error" => guard.outcome = "passes"

WinnerDetermination ==
    hpc = "ok" =>
        /\ db.score = <<scoreA, scoreB>>
        /\ db.resultA = "win" <=> scoreA > scoreB
        /\ db.resultB = "win" <=> scoreB > scoreA
        /\ db.resultA = "win" => db.resultB = "loss"
        /\ db.resultB = "win" => db.resultA = "loss"
        /\ scoreA = scoreB =>
               /\ db.resultA = "draw" /\ db.resultB = "draw"
               /\ db.faceitIsWin = "false"

\* a 1-1 tie was saved
WinnerDeterminationWitness ==
    /\ hpc = "ok"
    /\ scoreA = 1 /\ scoreB = 1
    /\ db.status = "completed"
    /\ db.resultA = "draw" /\ db.resultB = "draw"
    /\ db.faceitIsWin = "false"

\* the user's team, as the room lists it, has the greater tally
UserTeamWon ==
    \/ room.userTeamA /\ scoreA > scoreB
    \/ ~room.userTeamA /\ scoreB > scoreA

\* C20 (as amended): saveFaceitResult computes one delta, +eloGain when the
\* user's team has the greater tally and -eloLoss when it has not, and
\* changes the rating of the user and of every other team A player by that
\* delta and of every team B player by its negation.
RatingApplicationUserRelative ==
    hpc = "ok" =>
        LET d == IF UserTeamWon THEN room.elo[1] ELSE 0 - room.elo[2]
        IN  /\ db.profileDelta = d
            /\ db.teamADelta = d
            /\ db.teamBDelta = 0 - d
            /\ db.faceitEloDelta = d

\* the favoured team of the user won 2-0: +20 for team A, -20 for team B
RatingApplicationUserRelativeWitness ==
    /\ hpc = "ok"
    /\ room.userTeamA /\ room.elo = <<20, 30>>
    /\ scoreA = 2 /\ scoreB = 0
    /\ db.profileDelta = 20 /\ db.teamADelta = 20 /\ db.teamBDelta = -20

\* C20 (as stated): in every decided match every member of the side with
\* the greater tally changes by +eloGain and every member of the other side
\* by -eloLoss (stated for the rooms createMatchRoom builds, whose teamA
\* lists the user).
RatingApplication ==
    (hpc = "ok" /\ scoreA # scoreB /\ room.userTeamA) =>
        LET dA == IF scoreA > scoreB THEN room.elo[1] ELSE 0 - room.elo[2]
            dB == IF scoreB > scoreA THEN room.elo[1] ELSE 0 - room.elo[2]
        IN  /\ db.teamADelta = dA
            /\ db.teamBDelta = dB
            /\ db.profileDelta = dA

\* C21: for any result and any pair (eloGain, eloLoss), the delta applied to
\* the team B players is the exact negation of the delta applied to the
\* team A players and to the user's profile.
RatingZeroSum ==
    hpc = "ok" =>
        /\ db.teamBDelta = 0 - db.teamADelta
        /\ db.teamBDelta = 0 - db.profileDelta
        /\ db.teamADelta + db.teamBDelta = 0

\* the underdog team of the user lost: -20 for team A, +20 for team B
RatingZeroSumWitness ==
    /\ hpc = "ok"
    /\ room.elo = <<30, 20>> /\ room.userTeamA
    /\ scoreA < scoreB
    /\ db.teamADelta = -20 /\ db.teamBDelta = 20

(***************************************************************************)
(* Claims about the attribution of events (checked under SpecAttribution). *)
(***************************************************************************)
\* some roster player carries that value under that key
Known(key, value) ==
    value # Null /\ \E i \in 1..Len(players) : players[i][key] = value

\* the id is that of a roster player carrying that value under that key
IdMatches(id, key, value) ==
    \E i \in 1..Len(players) : players[i].id = id /\ players[i][key] = value

\* the id stored for a reference follows the priority steamId, serverId, name
ResolvedByPriority(ref, id) ==
    /\ Known("steamId", ref.steamId) => IdMatches(id, "steamId", ref.steamId)
    /\ (~Known("steamId", ref.steamId) /\ Known("serverId", ref.serverId))
           => IdMatches(id, "serverId", ref.serverId)
    /\ (/\ ~Known("steamId", ref.steamId) /\ ~Known("serverId", ref.serverId)
        /\ Known("name", ref.name)) => IdMatches(id, "name", ref.name)
    /\ (/\ ~Known("steamId", ref.steamId) /\ ~Known("serverId", ref.serverId)
        /\ ~Known("name", ref.name)) => id = NullId

\* C22: every reference of a saved event is resolved by steamId first, then
\* by serverId, then by exact name; a reference with all three keys of which
\* only the name matches gets the player of that name, and a reference whose
\* steamId matches one player and whose name matches another gets the
\* player with the steamId.
AttributionPriority ==
    hpc = "ok" =>
        \A i \in 1..Len(scorebotEvents) :
            LET e == scorebotEvents[i]
                row == db.events[i]
            IN  /\ ResolvedByPriority(Entity(e, "attacker"), row.attackerId)
                /\ ResolvedByPriority(Entity(e, "victim"), row.victimId)
                /\ ResolvedByPriority(Entity(e, "assist"), row.assistId)

\* a saved kill whose attacker has the steamId of player 1 and the name of
\* player 2 only, resolved to player 1
AttributionPriorityWitness ==
    /\ hpc = "ok"
    /\ Len(scorebotEvents) = 1 /\ Len(players) = 2
    /\ "attacker" \in DOMAIN scorebotEvents[1]
    /\ scorebotEvents[1].attacker =
           [name |-> "b", steamId |-> "S1", serverId |-> "4"]
    /\ players[1].steamId = "S1" /\ players[1].name = "a"
    /\ players[2].steamId = Null /\ players[2].name = "b"
    /\ players[1].serverId = Null /\ players[2].serverId = Null
    /\ db.events[1].attackerId = 1

\* none of the three keys of the reference matches a roster player
Unresolvable(ref) ==
    /\ ~Known("steamId", ref.steamId)
    /\ ~Known("serverId", ref.serverId)
    /\ ~Known("name", ref.name)

\* C23: saveFaceitResult creates exactly one event row per buffered event,
\* in buffer order, and a reference that matches no roster player is stored
\* as null in the row of its event.
AttributionPreservesCount ==
    hpc = "ok" =>
        /\ Len(db.events) = Len(scorebotEvents)
        /\ \A i \in 1..Len(scorebotEvents) :
               LET e == scorebotEvents[i]
                   row == db.events[i]
               IN  /\ row.type = e.type
                   /\ Unresolvable(Entity(e, "attacker"))
                          => row.attackerId = NullId
                   /\ Unresolvable(Entity(e, "victim"))
                          => row.victimId = NullId
                   /\ Unresolvable(Entity(e, "assist"))
                          => row.assistId = NullId
                   /\ ~Unresolvable(Entity(e, "attacker"))
                          => row.attackerId # NullId
                   /\ ~Unresolvable(Entity(e, "victim"))
                          => row.victimId # NullId

\* a kill by an unknown attacker followed by a round end: two rows, the
\* first with a null attacker and player 2 as victim
AttributionPreservesCountWitness ==
    /\ hpc = "ok"
    /\ Len(scorebotEvents) = 2
    /\ scorebotEvents[1].type = "playerkilled"
    /\ scorebotEvents[2].type = "roundover"
    /\ Unresolvable(Entity(scorebotEvents[1], "attacker"))
    /\ Len(db.events) = 2
    /\ db.events[1].type = "playerkilled"
    /\ db.events[1].attackerId = NullId /\ db.events[1].victimId = 2
    /\ db.events[2].type = "roundover"

(***************************************************************************)
(* Claims about the order of the steps of Server.start (checked under     *)
(* Spec).                                                                  *)
(***************************************************************************)
\* this step spawns the dedicated server or the client
LaunchesProcess ==
    \/ server = "none" /\ server' # "none"
    \/ gameClientProcess = "null" /\ gameClientProcess' # "null"

\* C24: a process is launched only after prepare() completed; rcon.init()
\* is attempted only after the launch of step 2; the watcher is created and
\* started only after rcon.init() settled, connected or failed; the event
\* callbacks run and the GAME_OVER wait begins only after scorebot.start()
\* returned.
PhaseOrdering ==
    [][/\ LaunchesProcess => (files = "prepared" /\ pc \in {"launch", "attach"})
       /\ (rcon = "none" /\ rcon' # "none")
              => (pc = "rcon" /\ (server = "up" \/ closeListeners >= 1))
       /\ (scorebot = "none" /\ scorebot' # "none")
              => rcon \in {"connected", "failed"}
       /\ (pc # "watching" /\ pc' = "watching")
              => (pc = "scorebot" /\ scorebot # "none"
                  /\ rcon \in {"connected", "failed"})
       /\ (scorebotEvents' # scorebotEvents \/ gameOvers' # gameOvers)
              => (pc \in {"watching", "resolved"} /\ scorebot = "started")
      ]_vars

\* a CSGO session that reached the GAME_OVER wait without a console
PhaseOrderingWitness ==
    /\ game = "csgo" /\ pc = "watching"
    /\ files = "prepared" /\ server = "up" /\ gameClientProcess = "proc"
    /\ rcon = "failed" /\ scorebot = "started"
    /\ Len(scorebotEvents) = 1

(***************************************************************************)
(* Relational claims about the reconciliation loop (checked under         *)
(* SpecTally).                                                             *)
(***************************************************************************)
\* the other of the two side assignments the handler can store
OtherSides(s) == IF s = SidesTCT THEN SidesCTT ELSE SidesTCT

\* the same rounds with every numeric raw winner inverted
InvertedWinners(evs) ==
    [i \in 1..Len(evs) |->
        IF evs[i].winner \in {0, 1}
        THEN [evs[i] EXCEPT !.winner = 1 - evs[i].winner]
        ELSE evs[i]]

\* the rounds the loop has gone through
RoundsSoFar == SubSeq(roundEvents, 1, idx)

\* C25: for every ROUND_OVER sequence and configuration, the tallies of the
\* loop run with sides {1:'t',2:'ct'} and with sides {1:'ct',2:'t'} are each
\* other's swap, and so are the tallies of the loop run on the sequence and
\* on the sequence with every raw winner inverted.
SideAssignmentSymmetry ==
    sides \in {SidesTCT, SidesCTT} =>
        LET other == Tally(TallyStart, RoundsSoFar, maxRounds, maxRoundsOT,
                           OtherSides(sides))
            inverted == Tally(TallyStart, InvertedWinners(RoundsSoFar),
                              maxRounds, maxRoundsOT, sides)
        IN  /\ scoreA = other.scoreB /\ scoreB = other.scoreA
            /\ scoreA = inverted.scoreB /\ scoreB = inverted.scoreA

\* a finished loop over a sequence that ran into overtime with sides
\* {1:'ct',2:'t'} and unequal tallies
SideAssignmentSymmetryWitness ==
    /\ hpc = "persist"
    /\ sides = SidesCTT
    /\ maxRounds = 2
    /\ idx = Len(roundEvents) /\ rounds > maxRounds + 1
    /\ scoreA > scoreB /\ scoreB > 0

(***************************************************************************)
(* Claims about the direction of the rating change (checked under         *)
(* SpecSave).                                                              *)
(***************************************************************************)
\* the delta written to the players of the team the room lists the user in
OwnTeamDelta == IF room.userTeamA THEN db.teamADelta ELSE db.teamBDelta

OneClosedOtherRunning ==
    \/ /\ peer = "running"
       /\ ~clientAlive /\ cleanupCalls > 0 /\ cleanupAwait = 0
    \/ /\ peer = "closed"
       /\ clientAlive /\ clientFault = "none"

\* C27: with two sessions in the process, after the cleanup of one of them
\* ran while the client of the other still runs, isRunningAndThrow does not
\* throw for that running client.
CrossSessionHandle ==
    [][(/\ guard' # guard
        /\ guard'.name = "client" /\ guard'.tasklist = "ok"
        /\ OneClosedOtherRunning)
           => guard'.outcome # "throws"]_vars

(***************************************************************************)
(* Claims about the event buffer over a session (checked under SpecHooks). *)
(***************************************************************************)
\* C28: in every step the buffer either stays as it is or gets exactly one
\* entry appended at its end, the event the watcher emitted in that step;
\* no entry is removed, moved or rewritten, so an earlier buffer is always a
\* prefix of a later one, also while a GAME_OVER callback sits in its settle
\* delay and after the result was set.
BufferAppendOnly ==
    [][/\ IsPrefix(scorebotEvents, scorebotEvents')
       /\ Len(scorebotEvents') <= Len(scorebotEvents) + 1
       /\ Len(scorebotEvents') = Len(scorebotEvents) + 1
              => LET e == scorebotEvents'[Len(scorebotEvents')]
                 IN  /\ e.type \in BufferedKinds
                     /\ emitted'[e.type] = emitted[e.type] + 1
       /\ \A k \in BufferedKinds :
              emitted'[k] # emitted[k]
                  => /\ Len(scorebotEvents') = Len(scorebotEvents) + 1
                     /\ scorebotEvents'[Len(scorebotEvents')].type = k
      ]_vars

\* a kill and a round end in the buffer, in that order, while a GAME_OVER
\* callback is inside its settle delay
BufferAppendOnlyWitness ==
    /\ sleeping # <<>>
    /\ Len(scorebotEvents) = 2
    /\ scorebotEvents[1].type = "playerkilled"
    /\ scorebotEvents[2].type = "roundover"
    /\ result = <<>>

(***************************************************************************)
(* Claims about the map veto (checked under SpecVeto).                     *)
(***************************************************************************)
\* the team whose ban is the i-th entry of the history
BanTurn(i) == IF i % 2 = 1 THEN "TEAM_A" ELSE "TEAM_B"

RegulationEquivalence ==
    (sides = SidesTCT /\ rounds <= maxRounds + 1) =>
        LET earlier == TallyEarlier(TallyStartEarlier, RoundsSoFar,
                                    maxRounds, maxRoundsOT)
        IN  /\ scoreA = earlier.scoreA
            /\ scoreB = earlier.scoreB
            /\ half = earlier.half /\ rounds = earlier.rounds

\* a full regulation of four rounds tallied 3:1, with rounds of the second
\* half counted for both teams
RegulationEquivalenceWitness ==
    /\ hpc = "persist"
    /\ sides = SidesTCT
    /\ maxRounds = 4 /\ rounds = 5 /\ idx = Len(roundEvents)
    /\ scoreA = 3 /\ scoreB = 1
    /\ half = 2

====
